---------------------------- MODULE Spec2Model ----------------------------
(***************************************************************************)
(* RISC-V simulator: the paged virtual memory (src/memory/virtual_mem.cpp) *)
(* and the hart's execution loop (src/simulator/hart_impl.cpp).            *)
(*                                                                         *)
(* Page and PhysMem are declared outside the two source files; their       *)
(* contract is taken from the specification (sections 3, 4.1 and 4.2).     *)
(* Widths are scaled: a byte has BYTE_BITS bits, a page 2^OFFSET_BIT_LENGTH*)
(* bytes and an unsigned 64-bit word WORD_BITS bits, so that every         *)
(* value stays inside TLC's integers while the arithmetic keeps its shape. *)
(***************************************************************************)
EXTENDS Integers, Sequences, FiniteSets, TLC

(***************************************************************************)
(* Bounds of the model.                                                    *)
(***************************************************************************)
BYTE_BITS == 2
WORD_BITS == 16
NumPages == 3
MaxOps == 2
MaxLen == 10
MaxPlacements == 4
MaxPhdrs == 2
MaxInstr == 5
MaxPC == 2
\* PhysMem::CreatePhysMem(16_GB), in pages.
CAPACITY_PAGES == 2

(***************************************************************************)
(* Page::OFFSET_BIT_LENGTH (scaled).                                       *)
(***************************************************************************)
OFFSET_BIT_LENGTH == 3

Pow2(n) == 2 ^ n
PAGE_SIZE == Pow2(OFFSET_BIT_LENGTH)
OFFSET_MASK == PAGE_SIZE - 1
WORD == Pow2(WORD_BITS)
BYTE == Pow2(BYTE_BITS)

Min(a, b) == IF a < b THEN a ELSE b
U64(x) == x % WORD

PageIds == 0 .. (NumPages - 1)
Offsets == 0 .. (PAGE_SIZE - 1)
Top == NumPages * PAGE_SIZE
Addr == 0 .. (Top - 1)
Bytes == 0 .. (BYTE - 1)

VARIABLES
    store,      \* PhysMem: page id -> the page's bytes (all zero until committed)
    pages,      \* PhysMem: the ids of the committed pages
    fp,         \* Page::free_mem_ptr of every page (0 until committed)
    status,     \* "running" | "aborted" (std::abort) | "hung" (a loop that never ends)
    nops,       \* number of operations made so far
    last,       \* the last operation: its name, its arguments, what it returned
    phase,      \* position of the driver that calls the operations
    hart        \* the hart: program counter, registers, position in RunImpl, counters

vars == <<store, pages, fp, status, nops, last, phase, hart>>

(***************************************************************************)
(* The memory as one value, the way the operators pass it around.          *)
(***************************************************************************)
VM == [store |-> store, pages |-> pages, fp |-> fp]

ZeroPage == [o \in Offsets |-> 0]
EmptyVM == [store |-> [p \in PageIds |-> ZeroPage],
            pages |-> {},
            fp |-> [p \in PageIds |-> 0]]

(***************************************************************************)
(* VirtualMem: address translation.                                        *)
(***************************************************************************)
GetPageOffsetByAddress(addr) == addr % PAGE_SIZE

GetPageIdByAddress(addr) == (addr - (addr % PAGE_SIZE)) \div PAGE_SIZE

GetPointer(page_id, page_offset) == (page_id * PAGE_SIZE) + page_offset

(***************************************************************************)
(* PhysMem (from the specification, 4.2).                                  *)
(***************************************************************************)
AtOnePage(offset, size) == offset + size <= PAGE_SIZE

\* GetAddr<AllocPageIfNeeded>: the pointer is the pair <<page, offset>>; a
\* missing page is created zeroed when allocation is allowed and the
\* capacity admits one more page, and is a page fault otherwise.
GetAddr(vm, alloc, page_id, offset) ==
    IF page_id \in vm.pages
    THEN [fault |-> FALSE, vm |-> vm, phys |-> <<page_id, offset>>]
    ELSE IF alloc /\ page_id \in PageIds /\ Cardinality(vm.pages) < CAPACITY_PAGES
         THEN [fault |-> FALSE,
               vm |-> [vm EXCEPT !.pages = vm.pages \cup {page_id},
                                 !.store[page_id] = ZeroPage,
                                 !.fp[page_id] = 0],
               phys |-> <<page_id, offset>>]
         ELSE [fault |-> TRUE, vm |-> vm, phys |-> <<0, 0>>]

\* Page::GetFreeMemorySize: PAGE_SIZE - free pointer, in unsigned arithmetic.
GetFreeMemorySize(free_ptr) == U64(PAGE_SIZE - free_ptr + WORD)

\* Page::GetOccupiedMemorySize.
GetOccupiedMemorySize(free_ptr) == free_ptr

\* The candidates of NextAfterLastOccupiedByte: pages with room left, a page
\* not yet committed counting as empty.
HasRoom(vm, p) == p \notin vm.pages \/ vm.fp[p] < PAGE_SIZE

\* NextAfterLastOccupiedByte: the lowest location not marked occupied.
NextAfterLastOccupiedByte(vm) ==
    LET cand == {p \in 0 .. NumPages : p \notin PageIds \/ HasRoom(vm, p)}
        p == CHOOSE q \in cand : \A r \in cand : q <= r
    IN IF p \in vm.pages THEN <<p, vm.fp[p]>> ELSE <<p, 0>>

(***************************************************************************)
(* VirtualMem::GetPhysAddress.                                             *)
(***************************************************************************)
GetPhysAddress(vm, alloc, addr) ==
    GetAddr(vm, alloc, GetPageIdByAddress(addr), GetPageOffsetByAddress(addr))

\* *phys_addr = chr
WriteAt(vm, phys, chr) == [vm EXCEPT !.store[phys[1]][phys[2]] = chr]

\* *phys_addr
ReadAt(vm, phys) == vm.store[phys[1]][phys[2]]

(***************************************************************************)
(* Outcomes: st is "ok", "abort" (the fault was caught: the backing store  *)
(* is destroyed and the process aborted), "throw" (a std::runtime_error    *)
(* leaves the function), "assert" (an assert failed: the process aborts)   *)
(* or "hang"; sb counts the StoreByte calls made and ww lists the widths   *)
(* of the wide writes made.                                                *)
(***************************************************************************)
Outcome(st, vm, sb, ww) == [st |-> st, vm |-> vm, sb |-> sb, ww |-> ww]

\* StoreByte with the write lost when the page had to be allocated first.
StoreByte_LostOnAlloc(vm, addr, chr) ==
    LET r == GetPhysAddress(vm, TRUE, addr)
    IN IF r.fault
       THEN Outcome("abort", EmptyVM, 1, <<>>)
       ELSE IF GetPageIdByAddress(addr) \in vm.pages
            THEN Outcome("ok", WriteAt(r.vm, r.phys, chr), 1, <<>>)
            ELSE Outcome("ok", r.vm, 1, <<>>)

\* StoreByte that also marks the byte it wrote as occupied.
StoreByte_MarksOccupied(vm, addr, chr) ==
    LET r == GetPhysAddress(vm, TRUE, addr)
    IN IF r.fault
       THEN Outcome("abort", EmptyVM, 1, <<>>)
       ELSE Outcome("ok", [WriteAt(r.vm, r.phys, chr) EXCEPT !.fp[r.phys[1]] = r.phys[2] + 1],
                    1, <<>>)

\* VirtualMem::StoreByte
StoreByte(vm, addr, chr) ==
    LET r == GetPhysAddress(vm, TRUE, addr)
    IN IF r.fault
       THEN Outcome("abort", EmptyVM, 1, <<>>)
       ELSE Outcome("ok", WriteAt(r.vm, r.phys, chr), 1, <<>>)

\* LoadByte that reads a missing page as zero.
LoadByte_ZeroOnFault(vm, addr) ==
    LET r == GetPhysAddress(vm, FALSE, addr)
    IN IF r.fault
       THEN [st |-> "ok", val |-> 0]
       ELSE [st |-> "ok", val |-> ReadAt(vm, r.phys)]

\* VirtualMem::LoadByte
LoadByte(vm, addr) ==
    LET r == GetPhysAddress(vm, FALSE, addr)
    IN IF r.fault
       THEN [st |-> "abort", val |-> 0]
       ELSE [st |-> "ok", val |-> ReadAt(vm, r.phys)]


(***************************************************************************)
(* Wide accesses through reinterpret_cast at a physical pointer.  The host *)
(* is little-endian: byte i of the object is bits [i*BYTE_BITS,            *)
(* (i+1)*BYTE_BITS) of the value.                                          *)
(***************************************************************************)
ByteOf(value, i) == (value \div Pow2(i * BYTE_BITS)) % BYTE

RECURSIVE WideWrite(_, _, _, _)
WideWrite(vm, phys, n, value) ==
    IF n = 0
    THEN vm
    ELSE WideWrite(WriteAt(vm, <<phys[1], phys[2] + n - 1>>, ByteOf(value, n - 1)),
                   phys, n - 1, value)

RECURSIVE WideRead(_, _, _)
WideRead(vm, phys, n) ==
    IF n = 0
    THEN 0
    ELSE WideRead(vm, phys, n - 1)
         + ReadAt(vm, <<phys[1], phys[2] + n - 1>>) * Pow2((n - 1) * BYTE_BITS)

\* The fast branch of Store{Two,Four,Eight}BytesFast: taken when the access
\* lies in one page; GetPhysAddress<true> is not guarded by a try block.
FastStore(vm, addr, n, value) ==
    IF AtOnePage(GetPageOffsetByAddress(addr), n)
    THEN LET r == GetPhysAddress(vm, TRUE, addr)
         IN IF r.fault
            THEN Outcome("throw", vm, 0, <<>>)
            ELSE Outcome("ok", WideWrite(r.vm, r.phys, n, value), 0, <<n>>)
    ELSE Outcome("ok", vm, 0, <<>>)

\* Two calls in sequence: the second runs on the memory the first left,
\* unless the first did not return.
Then2(a, b) ==
    IF a.st # "ok" THEN a ELSE Outcome(b.st, b.vm, a.sb + b.sb, a.ww \o b.ww)

\* value & (TwoPow<k>() - 1)
LowerHalf(value, bits) == value % Pow2(bits)

\* (value & ((TwoPow<k>() - 1) << k)) >> k
UpperHalf(value, bits) == (value \div Pow2(bits)) % Pow2(bits)

\* VirtualMem::StoreTwoBytesFast: the fast branch does not return, the
\* byte stores below it run on every call.
StoreTwoBytesFast(vm, addr, value) ==
    LET f == FastStore(vm, addr, 2, value)
        lower_value == LowerHalf(value, BYTE_BITS)
        upper_value == UpperHalf(value, BYTE_BITS)
        s1 == Then2(f, StoreByte(f.vm, addr, lower_value))
    IN Then2(s1, StoreByte(s1.vm, addr + 1, upper_value))

\* StoreFourBytesFast with the upper half stored one byte too low.
StoreFourBytesFast_Overlap(vm, addr, value) ==
    LET f == FastStore(vm, addr, 4, value)
        lower_value == LowerHalf(value, 2 * BYTE_BITS)
        upper_value == UpperHalf(value, 2 * BYTE_BITS)
        s1 == Then2(f, StoreTwoBytesFast(f.vm, addr, lower_value))
    IN Then2(s1, StoreTwoBytesFast(s1.vm, addr + 1, upper_value))

\* VirtualMem::StoreFourBytesFast
StoreFourBytesFast(vm, addr, value) ==
    LET f == FastStore(vm, addr, 4, value)
        lower_value == LowerHalf(value, 2 * BYTE_BITS)
        upper_value == UpperHalf(value, 2 * BYTE_BITS)
        s1 == Then2(f, StoreTwoBytesFast(f.vm, addr, lower_value))
    IN Then2(s1, StoreTwoBytesFast(s1.vm, addr + 2, upper_value))

\* VirtualMem::StoreEightBytesFast
StoreEightBytesFast(vm, addr, value) ==
    LET f == FastStore(vm, addr, 8, value)
        lower_value == LowerHalf(value, 4 * BYTE_BITS)
        upper_value == UpperHalf(value, 4 * BYTE_BITS)
        s1 == Then2(f, StoreFourBytesFast(f.vm, addr, lower_value))
    IN Then2(s1, StoreFourBytesFast(s1.vm, addr + 4, upper_value))

\* Two loads combined: value |= lower; value |= upper << bits.  The halves
\* occupy disjoint bits, so the bitwise or is a sum.
Join(lo, hi, bits) ==
    IF lo.st # "ok" THEN lo
    ELSE IF hi.st # "ok" THEN hi
    ELSE [st |-> "ok", val |-> lo.val + hi.val * Pow2(bits)]

\* The fast branch of Load{Two,Four,Eight}BytesFast (it returns).
FastLoad(vm, addr, n) ==
    LET r == GetPhysAddress(vm, FALSE, addr)
    IN IF r.fault
       THEN [st |-> "throw", val |-> 0]
       ELSE [st |-> "ok", val |-> WideRead(vm, r.phys, n)]

\* VirtualMem::LoadTwoBytesFast
LoadTwoBytesFast(vm, addr) ==
    IF AtOnePage(GetPageOffsetByAddress(addr), 2)
    THEN FastLoad(vm, addr, 2)
    ELSE Join(LoadByte(vm, addr), LoadByte(vm, addr + 1), BYTE_BITS)

\* VirtualMem::LoadFourBytesFast
LoadFourBytesFast(vm, addr) ==
    IF AtOnePage(GetPageOffsetByAddress(addr), 4)
    THEN FastLoad(vm, addr, 4)
    ELSE Join(LoadTwoBytesFast(vm, addr), LoadTwoBytesFast(vm, addr + 2), 2 * BYTE_BITS)

\* VirtualMem::LoadEightBytesFast
LoadEightBytesFast(vm, addr) ==
    IF AtOnePage(GetPageOffsetByAddress(addr), 8)
    THEN FastLoad(vm, addr, 8)
    ELSE Join(LoadFourBytesFast(vm, addr), LoadFourBytesFast(vm, addr + 4), 4 * BYTE_BITS)

(***************************************************************************)
(* Page and PhysMem operations used by the occupancy bookkeeping (from the *)
(* specification, 4.1 and 4.2): the setter stores what it is given, the    *)
(* range [0, PAGE_SIZE] being the caller's obligation.                     *)
(***************************************************************************)
SetFreeMemoryPtr(vm, page_id, ptr) == [vm EXCEPT !.fp[page_id] = ptr]

GetFreeMemoryPtr(vm, page_id) == vm.fp[page_id]

\* VirtualMem::GetPageByAddress: PhysMem::GetPage faults on a missing page.
GetPageByAddress(vm, addr) ==
    LET page_id == GetPageIdByAddress(addr)
    IN [fault |-> page_id \notin vm.pages, page |-> page_id]

\* IncTail with the last page's free pointer left where it was.
IncTail_NoAdvance(vm, page, addr, length, unoccupied_mem) ==
    LET free_mem_size == GetFreeMemorySize(GetFreeMemoryPtr(vm, page))
    IN IF length > free_mem_size
       THEN [vm |-> SetFreeMemoryPtr(vm, page, U64(unoccupied_mem + free_mem_size)),
             addr |-> U64(addr + free_mem_size),
             length |-> length - free_mem_size]
       ELSE [vm |-> SetFreeMemoryPtr(vm, page, unoccupied_mem),
             addr |-> addr,
             length |-> 0]

\* Lines 88-100 of IncrementOccupiedValue: the part of the loop body run
\* when the cursor is at or before the free pointer.
IncTail(vm, page, addr, length, unoccupied_mem) ==
    LET free_mem_size == GetFreeMemorySize(GetFreeMemoryPtr(vm, page))
    IN IF length > free_mem_size
       THEN [vm |-> SetFreeMemoryPtr(vm, page, U64(unoccupied_mem + free_mem_size)),
             addr |-> U64(addr + free_mem_size),
             length |-> length - free_mem_size]
       ELSE [vm |-> SetFreeMemoryPtr(vm, page, U64(unoccupied_mem + length)),
             addr |-> addr,
             length |-> 0]

\* One iteration of the while loop of IncrementOccupiedValue, entered with
\* length # 0 and the page of addr committed.
IncBody(vm, addr, length) ==
    LET page == GetPageIdByAddress(addr)
        unoccupied_mem == GetFreeMemoryPtr(vm, page)
    IN IF addr < unoccupied_mem
       THEN IncTail(vm, page, unoccupied_mem,
                    length - Min(length, unoccupied_mem - addr), unoccupied_mem)
       ELSE IF addr > unoccupied_mem
            THEN [vm |-> SetFreeMemoryPtr(vm, page, addr), addr |-> addr, length |-> length]
            ELSE IncTail(vm, page, addr, length, unoccupied_mem)

\* The loop: "throw" when GetPage faults; "hang" when an iteration leaves
\* vm, addr and length as they were, since the next one then repeats it
\* (or when the iterations allowed are used up).
RECURSIVE IncLoop(_, _, _, _)
IncLoop(vm, addr, length, fuel) ==
    IF length = 0
    THEN [st |-> "ok", vm |-> vm, iters |-> 0]
    ELSE IF GetPageByAddress(vm, addr).fault
         THEN [st |-> "throw", vm |-> vm, iters |-> 0]
         ELSE LET n == IncBody(vm, addr, length)
              IN IF fuel = 0 \/ (n.vm = vm /\ n.addr = addr /\ n.length = length)
                 THEN [st |-> "hang", vm |-> n.vm, iters |-> 1]
                 ELSE LET r == IncLoop(n.vm, n.addr, n.length, fuel - 1)
                      IN [r EXCEPT !.iters = r.iters + 1]

\* IncrementOccupiedValue with the length tested after the loop body.
IncrementOccupiedValue_TestAfter(vm, addr, length) ==
    IF GetPageByAddress(vm, addr).fault
    THEN [st |-> "throw", vm |-> vm, iters |-> 0]
    ELSE IncLoop(IncBody(vm, addr, length).vm, IncBody(vm, addr, length).addr,
                 IncBody(vm, addr, length).length, 2 * length + 4)

\* VirtualMem::IncrementOccupiedValue
IncrementOccupiedValue(vm, addr, length) == IncLoop(vm, addr, length, 2 * length + 4)

\* The for loop of StoreByteSequence: chrs[i + 1] is *(chrs + i).
RECURSIVE StoreBytes(_, _, _, _, _)
StoreBytes(vm, addr, chrs, i, length) ==
    IF i >= length
    THEN Outcome("ok", vm, 0, <<>>)
    ELSE LET s == StoreByte(vm, addr + i, chrs[i + 1])
         IN Then2(s, StoreBytes(s.vm, addr, chrs, i + 1, length))

\* VirtualMem::StoreByteSequence
StoreByteSequence(vm, addr, chrs, length) ==
    LET s == StoreBytes(vm, addr, chrs, 0, length)
    IN IF s.st # "ok"
       THEN s
       ELSE LET o == IncrementOccupiedValue(s.vm, addr, length)
            IN Outcome(o.st, o.vm, s.sb, s.ww)

\* VirtualMem::LoadByteSequence
RECURSIVE LoadByteSequence(_, _, _)
LoadByteSequence(vm, addr, length) ==
    IF length = 0
    THEN [st |-> "ok", val |-> <<>>]
    ELSE LET h == LoadByteSequence(vm, addr, length - 1)
             b == LoadByte(vm, addr + length - 1)
         IN IF h.st # "ok" THEN h
            ELSE IF b.st # "ok" THEN [st |-> b.st, val |-> <<>>]
            ELSE [st |-> "ok", val |-> Append(h.val, b.val)]

\* VirtualMem::GetNextContinuousBlock
GetNextContinuousBlock(vm) ==
    LET ind_and_offset == NextAfterLastOccupiedByte(vm)
    IN GetPointer(ind_and_offset[1], ind_and_offset[2])

(***************************************************************************)
(* The driver: what it calls, with which arguments.                        *)
(***************************************************************************)
NoOp == [op |-> "none", addr |-> 0, val |-> 0, chrs |-> <<>>, len |-> 0,
         st |-> "ok", ret |-> 0, sb |-> 0, ww |-> <<>>, img |-> <<>>, err |-> ""]

\* The process after a call that ended with outcome st: an exception that
\* leaves the call is handed to the caller, which goes on.
StatusAfter(st) ==
    CASE st = "abort" -> "aborted"
      [] st = "assert" -> "aborted"
      [] st = "hang" -> "hung"
      [] OTHER -> "running"

\* The value whose little-endian bytes are bs.
RECURSIVE FromLE(_)
FromLE(bs) ==
    IF bs = <<>> THEN 0 ELSE Head(bs) + BYTE * FromLE(Tail(bs))

\* Bytes stored by the driver: never 0, so that a stored byte differs from
\* a fresh page's.
ByteVals == {1, BYTE - 1}

Pattern == <<1, 2, 3, 0, 2, 1, 3, 2>>

\* Values of n bytes stored by the driver.
WideVals(n) == {FromLE(SubSeq(Pattern, 1, n))}

\* The byte sequences handed to StoreByteSequence.
Chrs(seed, n) == [i \in 1 .. n |-> ((seed + i) % (BYTE - 1)) + 1]

\* The hart between calls.  pc and regs are the executor's state; the rest
\* describes the call in progress or just over: which entry point, its
\* arguments, RunImpl's counter, what it printed (out, -1: nothing; msg),
\* what RunInstr returned (ret, -1: nothing), and what the collaborators
\* were asked: the program counters fetched, the number of decodes and of
\* executes, and the program counter each execute left.
HartAt(pc, regs) ==
    [pc |-> pc, regs |-> regs, pos |-> "idle", call |-> "none", mode |-> "NONE",
     measure |-> FALSE, counter |-> 0, out |-> -1, msg |-> "", ret |-> -1,
     done |-> FALSE, fetched |-> <<>>, ndecode |-> 0, nexec |-> 0, after |-> <<>>]

HartInit == HartAt(0, 0)

MemInit ==
    /\ store = EmptyVM.store
    /\ pages = EmptyVM.pages
    /\ fp = EmptyVM.fp
    /\ status = "running"
    /\ nops = 0
    /\ last = NoOp

\* The memory and the call record after a store that ended with outcome o.
Commit(o, rec) ==
    /\ store' = o.vm.store
    /\ pages' = o.vm.pages
    /\ fp' = o.vm.fp
    /\ status' = StatusAfter(o.st)
    /\ nops' = nops + 1
    /\ last' = [rec EXCEPT !.st = o.st, !.sb = o.sb, !.ww = o.ww]

CanCall == status = "running" /\ nops < MaxOps

DoStoreByte ==
    /\ CanCall
    /\ \E a \in Addr, v \in ByteVals :
          Commit(StoreByte(VM, a, v), [NoOp EXCEPT !.op = "StoreByte", !.addr = a, !.val = v])
    /\ UNCHANGED <<phase, hart>>

\* The wide stores' driver: after at most MaxOps byte stores at the edges of
\* pages, which commit pages and leave bytes to overwrite, one wide store.
PriorAddrs == {GetPointer(p, o) : p \in PageIds, o \in {0, PAGE_SIZE - 1}}

FastPrior ==
    /\ CanCall
    /\ phase.pos = "fast"
    /\ \E a \in PriorAddrs :
          Commit(StoreByte(VM, a, BYTE - 1),
                 [NoOp EXCEPT !.op = "StoreByte", !.addr = a, !.val = BYTE - 1])
    /\ UNCHANGED <<phase, hart>>

CanStoreFast == status = "running" /\ phase.pos \in {"fast", "access"}

DoStoreTwoBytesFast ==
    /\ CanStoreFast
    /\ \E a \in Addr, x \in WideVals(2) :
          /\ a + 2 <= Top
          /\ Commit(StoreTwoBytesFast(VM, a, x),
                    [NoOp EXCEPT !.op = "StoreTwoBytesFast", !.addr = a, !.val = x, !.len = 2])
    /\ phase' = [phase EXCEPT !.pos = "stored"]
    /\ UNCHANGED hart

DoStoreFourBytesFast ==
    /\ CanStoreFast
    /\ \E a \in Addr, x \in WideVals(4) :
          /\ a + 4 <= Top
          /\ Commit(StoreFourBytesFast(VM, a, x),
                    [NoOp EXCEPT !.op = "StoreFourBytesFast", !.addr = a, !.val = x, !.len = 4])
    /\ phase' = [phase EXCEPT !.pos = "stored"]
    /\ UNCHANGED hart

DoStoreEightBytesFast ==
    /\ CanStoreFast
    /\ \E a \in Addr, x \in WideVals(8) :
          /\ a + 8 <= Top
          /\ Commit(StoreEightBytesFast(VM, a, x),
                    [NoOp EXCEPT !.op = "StoreEightBytesFast", !.addr = a, !.val = x, !.len = 8])
    /\ phase' = [phase EXCEPT !.pos = "stored"]
    /\ UNCHANGED hart

\* The driver's position: got is the address GetNextContinuousBlock last
\* returned, placed the placements <<address, length>> made at such addresses.
Driver(pos) == [pos |-> pos, got |-> 0, placed |-> <<>>]

Init == MemInit /\ phase = Driver("bytes") /\ hart = HartInit

Next == DoStoreByte

Spec == Init /\ [][Next]_vars

InitFast == MemInit /\ phase = Driver("fast") /\ hart = HartInit

NextFast ==
    \/ FastPrior
    \/ DoStoreTwoBytesFast
    \/ DoStoreFourBytesFast
    \/ DoStoreEightBytesFast

SpecFast == InitFast /\ [][NextFast]_vars

(***************************************************************************)
(* The driver of the bulk stores.                                          *)
(***************************************************************************)
Seeds == {0, 1}

DoStoreByteSequence ==
    /\ CanCall
    /\ \E a \in Addr, n \in 0 .. MaxLen, seed \in Seeds :
          /\ a + n <= Top
          /\ Commit(StoreByteSequence(VM, a, Chrs(seed, n), n),
                    [NoOp EXCEPT !.op = "StoreByteSequence", !.addr = a,
                                 !.chrs = Chrs(seed, n), !.len = n])
    /\ UNCHANGED <<phase, hart>>

InitSeq == MemInit /\ phase = Driver("seq") /\ hart = HartInit

NextSeq == DoStoreByteSequence

SpecSeq == InitSeq /\ [][NextSeq]_vars

(***************************************************************************)
(* The driver of single accesses: after fewer than MaxOps bulk stores near *)
(* the edges of pages, which commit pages and move free pointers, one      *)
(* access: a store or a load of any kind.                                  *)
(***************************************************************************)
AccessAddrs == {GetPointer(p, o) : p \in PageIds, o \in {1, PAGE_SIZE - 2}}

CanAccess == status = "running" /\ phase.pos = "access"

AccessPrior ==
    /\ CanAccess
    /\ nops + 1 < MaxOps
    /\ \E a \in AccessAddrs, n \in 1 .. 3 :
          /\ a + n <= Top
          /\ Commit(StoreByteSequence(VM, a, Chrs(0, n), n),
                    [NoOp EXCEPT !.op = "StoreByteSequence", !.addr = a,
                                 !.chrs = Chrs(0, n), !.len = n])
    /\ UNCHANGED <<phase, hart>>

AccessStoreByte ==
    /\ CanAccess
    /\ \E a \in Addr, v \in ByteVals :
          Commit(StoreByte(VM, a, v), [NoOp EXCEPT !.op = "StoreByte", !.addr = a, !.val = v])
    /\ phase' = [phase EXCEPT !.pos = "stored"]
    /\ UNCHANGED hart

AccessStoreByteSequence ==
    /\ CanAccess
    /\ \E a \in Addr, n \in 0 .. 1 :
          Commit(StoreByteSequence(VM, a, Chrs(1, n), n),
                 [NoOp EXCEPT !.op = "StoreByteSequence", !.addr = a,
                              !.chrs = Chrs(1, n), !.len = n])
    /\ phase' = [phase EXCEPT !.pos = "stored"]
    /\ UNCHANGED hart

\* The catch block of LoadByte: std::cerr << e.what().
Reported(st) == IF st = "abort" THEN "e.what()" ELSE ""

\* The memory after a load that ended with outcome st: the loads write
\* nothing and GetAddr<false> creates no page, PhysMem::Destroy releases
\* every page.
AfterLoad(vm, st) == IF st = "abort" THEN EmptyVM ELSE vm

\* The memory and the call record after a load that ended as l.
CommitLoad(l, rec) ==
    /\ store' = AfterLoad(VM, l.st).store
    /\ pages' = AfterLoad(VM, l.st).pages
    /\ fp' = AfterLoad(VM, l.st).fp
    /\ status' = StatusAfter(l.st)
    /\ nops' = nops + 1
    /\ last' = [rec EXCEPT !.st = l.st, !.ret = l.val, !.err = Reported(l.st)]
    /\ phase' = [phase EXCEPT !.pos = "loaded"]
    /\ UNCHANGED hart

DoLoadByte ==
    /\ CanAccess
    /\ \E a \in Addr :
          CommitLoad(LoadByte(VM, a), [NoOp EXCEPT !.op = "LoadByte", !.addr = a, !.len = 1])

DoLoadTwoBytesFast ==
    /\ CanAccess
    /\ \E a \in Addr :
          /\ a + 2 <= Top
          /\ CommitLoad(LoadTwoBytesFast(VM, a),
                        [NoOp EXCEPT !.op = "LoadTwoBytesFast", !.addr = a, !.len = 2])

DoLoadFourBytesFast ==
    /\ CanAccess
    /\ \E a \in Addr :
          /\ a + 4 <= Top
          /\ CommitLoad(LoadFourBytesFast(VM, a),
                        [NoOp EXCEPT !.op = "LoadFourBytesFast", !.addr = a, !.len = 4])

DoLoadEightBytesFast ==
    /\ CanAccess
    /\ \E a \in Addr :
          /\ a + 8 <= Top
          /\ CommitLoad(LoadEightBytesFast(VM, a),
                        [NoOp EXCEPT !.op = "LoadEightBytesFast", !.addr = a, !.len = 8])

DoLoadByteSequence ==
    /\ CanAccess
    /\ \E a \in Addr, n \in 0 .. 2 :
          /\ a + n <= Top
          /\ CommitLoad(LoadByteSequence(VM, a, n),
                        [NoOp EXCEPT !.op = "LoadByteSequence", !.addr = a, !.len = n])

InitAccess == MemInit /\ phase = Driver("access") /\ hart = HartInit

NextAccess ==
    \/ AccessPrior
    \/ AccessStoreByte
    \/ AccessStoreByteSequence
    \/ DoStoreTwoBytesFast
    \/ DoStoreFourBytesFast
    \/ DoStoreEightBytesFast
    \/ DoLoadByte
    \/ DoLoadTwoBytesFast
    \/ DoLoadFourBytesFast
    \/ DoLoadEightBytesFast
    \/ DoLoadByteSequence

SpecAccess == InitAccess /\ [][NextAccess]_vars

(***************************************************************************)
(* The driver that places data with the bump allocator: after an optional  *)
(* earlier bulk store, it asks GetNextContinuousBlock for an address and   *)
(* stores L >= 1 bytes there, again and again.                             *)
(***************************************************************************)
AllocPrior ==
    /\ status = "running"
    /\ phase.pos = "start"
    /\ \E a \in Addr, n \in 1 .. MaxLen :
          /\ a + n <= Top
          /\ Commit(StoreByteSequence(VM, a, Chrs(0, n), n),
                    [NoOp EXCEPT !.op = "StoreByteSequence", !.addr = a,
                                 !.chrs = Chrs(0, n), !.len = n])
    /\ phase' = [phase EXCEPT !.pos = "place"]
    /\ UNCHANGED hart

AllocGet ==
    /\ status = "running"
    /\ phase.pos \in {"start", "place"}
    /\ Len(phase.placed) < MaxPlacements
    /\ phase' = [phase EXCEPT !.pos = "got", !.got = GetNextContinuousBlock(VM)]
    /\ last' = [NoOp EXCEPT !.op = "GetNextContinuousBlock",
                            !.ret = GetNextContinuousBlock(VM)]
    /\ nops' = nops + 1
    /\ UNCHANGED <<store, pages, fp, status, hart>>

AllocPlace ==
    /\ status = "running"
    /\ phase.pos = "got"
    /\ \E n \in 1 .. MaxLen :
          /\ phase.got + n <= Top
          /\ Commit(StoreByteSequence(VM, phase.got, Chrs(1, n), n),
                    [NoOp EXCEPT !.op = "StoreByteSequence", !.addr = phase.got,
                                 !.chrs = Chrs(1, n), !.len = n])
          /\ phase' = [phase EXCEPT !.pos = "place",
                                    !.placed = Append(phase.placed, <<phase.got, n>>)]
    /\ UNCHANGED hart

InitAlloc == MemInit /\ phase = Driver("start") /\ hart = HartInit

NextAlloc ==
    \/ AllocPrior
    \/ AllocGet
    \/ AllocPlace

SpecAlloc == InitAlloc /\ [][NextAlloc]_vars

(***************************************************************************)
(* The hart (src/simulator/hart_impl.cpp).  Fetch, decoder and executor    *)
(* are collaborators: an executed instruction leaves any program counter   *)
(* and any register state, and may store a byte.                           *)
(***************************************************************************)
PCs == 0 .. MaxPC
Regs == {0, 1}
Modes == {"SIMPLE", "BB", "NONE", "OTHER"}
Effects == [pc : PCs, regs : Regs, stores : BOOLEAN]

\* fetch_.loadInstr(executor_.getPC()); decoder_.DecodeInstr(raw_instr);
\* executor_.RunInstr(&instr)
Cycle(h, eff) ==
    [h EXCEPT !.fetched = Append(@, h.pc),
              !.ndecode = @ + 1,
              !.nexec = @ + 1,
              !.after = Append(@, eff.pc),
              !.pc = eff.pc,
              !.regs = eff.regs]

\* RunInstr with the decode left out of the cycle.
RunInstr_NoDecode(h, eff) ==
    LET c == [HartAt(h.pc, h.regs) EXCEPT !.call = "RunInstr", !.done = TRUE]
    IN IF c.pc = 0
       THEN [c EXCEPT !.ret = 1]
       ELSE [Cycle(c, eff) EXCEPT !.ret = 0, !.ndecode = 0]

\* RunInstr with the program counter tested after the cycle, not before.
RunInstr_TestAfter(h, eff) ==
    LET c == Cycle([HartAt(h.pc, h.regs) EXCEPT !.call = "RunInstr", !.done = TRUE], eff)
    IN IF c.pc = 0 THEN [c EXCEPT !.ret = 1] ELSE [c EXCEPT !.ret = 0]

\* Hart::RunInstr
RunInstr(h, eff) ==
    LET c == [HartAt(h.pc, h.regs) EXCEPT !.call = "RunInstr", !.done = TRUE]
    IN IF c.pc = 0
       THEN [c EXCEPT !.ret = 1]
       ELSE [Cycle(c, eff) EXCEPT !.ret = 0]

\* Lines 83-89 of Hart::RunImpl: the report, printed when need_to_measure.
Report(h) ==
    [h EXCEPT !.pos = "idle", !.done = TRUE,
              !.out = IF h.measure THEN h.counter ELSE -1]

\* RunImplEnter with Mode::BB running the loop of Mode::SIMPLE.
RunImplEnter_BBRuns(h, mode, need_to_measure) ==
    LET c == [HartAt(h.pc, h.regs) EXCEPT !.call = "RunImpl", !.mode = mode,
                                          !.measure = need_to_measure]
    IN CASE mode \in {"SIMPLE", "BB"} -> [c EXCEPT !.pos = "loop"]
         [] mode = "NONE" -> Report([c EXCEPT !.msg = "None mode is used"])
         [] OTHER -> Report([c EXCEPT !.msg = "Unsupported mode"])

\* Hart::RunImpl up to the switch: Mode::SIMPLE enters the do-while loop,
\* every other mode goes to the report.
RunImplEnter(h, mode, need_to_measure) ==
    LET c == [HartAt(h.pc, h.regs) EXCEPT !.call = "RunImpl", !.mode = mode,
                                          !.measure = need_to_measure]
    IN CASE mode = "SIMPLE" -> [c EXCEPT !.pos = "loop"]
         [] mode = "BB" -> Report(c)
         [] mode = "NONE" -> Report([c EXCEPT !.msg = "None mode is used"])
         [] OTHER -> Report([c EXCEPT !.msg = "Unsupported mode"])

\* RunImplIter with the counter incremented only when the loop goes on.
RunImplIter_CountAfterTest(h, eff) ==
    LET c == Cycle(h, eff)
    IN IF c.pc # 0 THEN [c EXCEPT !.counter = @ + 1] ELSE Report(c)

\* One pass of the do-while loop of Mode::SIMPLE with its test, and the
\* report when the loop ends.
RunImplIter(h, eff) ==
    LET c == [Cycle(h, eff) EXCEPT !.counter = @ + 1]
    IN IF c.pc # 0 THEN c ELSE Report(c)

\* What an executed instruction does to the memory.
ExecStores(eff) ==
    IF eff.stores
    THEN LET o == StoreByte(VM, 1, 1)
         IN /\ store' = o.vm.store
            /\ pages' = o.vm.pages
            /\ fp' = o.vm.fp
    ELSE UNCHANGED <<store, pages, fp>>

HartRunInstr ==
    /\ status = "running"
    /\ hart.pos = "idle"
    /\ \E eff \in Effects :
          /\ hart' = RunInstr(hart, eff)
          /\ IF hart.pc = 0 THEN UNCHANGED <<store, pages, fp>> ELSE ExecStores(eff)
    /\ UNCHANGED <<status, nops, last, phase>>

HartRunImplEnter ==
    /\ status = "running"
    /\ hart.pos = "idle"
    /\ \E mode \in Modes, need_to_measure \in BOOLEAN :
          hart' = RunImplEnter(hart, mode, need_to_measure)
    /\ UNCHANGED <<store, pages, fp, status, nops, last, phase>>

HartRunImplIter ==
    /\ status = "running"
    /\ hart.pos = "loop"
    /\ hart.counter < MaxInstr
    /\ \E eff \in Effects :
          /\ hart' = RunImplIter(hart, eff)
          /\ ExecStores(eff)
    /\ UNCHANGED <<status, nops, last, phase>>

InitHart ==
    /\ MemInit
    /\ phase = Driver("hart")
    /\ \E pc \in PCs : hart = HartAt(pc, 0)

NextHart ==
    \/ HartRunInstr
    \/ HartRunImplEnter
    \/ HartRunImplIter

SpecHart == InitHart /\ [][NextHart]_vars

(***************************************************************************)
(* The ELF loader.  libelf is a collaborator: an image is what it hands    *)
(* over, the header (gelf_getehdr), the program headers (gelf_getphdr) and *)
(* the file's bytes (pread); the file opens and libelf accepts it.         *)
(***************************************************************************)
ELFMAG0 == 127
ELFMAG1 == 69
ELFMAG2 == 76
ELFMAG3 == 70
ELFCLASS64 == 2
ELFDATA2LSB == 1
EM_RISCV == 243
PT_LOAD == 1

\* validateElfHeader with the e_machine check left out.
validateElfHeader_NoMachine(ehdr) ==
    IF ehdr.EI_MAG0 # ELFMAG0 THEN "EI_MAG0"
    ELSE IF ehdr.EI_MAG1 # ELFMAG1 THEN "EI_MAG1"
    ELSE IF ehdr.EI_MAG2 # ELFMAG2 THEN "EI_MAG2"
    ELSE IF ehdr.EI_MAG3 # ELFMAG3 THEN "EI_MAG3"
    ELSE IF ehdr.EI_CLASS # ELFCLASS64 THEN "EI_CLASS"
    ELSE IF ehdr.EI_DATA # ELFDATA2LSB THEN "EI_DATA"
    ELSE ""

\* VirtualMem::validateElfHeader: the field named by the std::runtime_error
\* thrown, "" when none is.
validateElfHeader(ehdr) ==
    IF ehdr.EI_MAG0 # ELFMAG0 THEN "EI_MAG0"
    ELSE IF ehdr.EI_MAG1 # ELFMAG1 THEN "EI_MAG1"
    ELSE IF ehdr.EI_MAG2 # ELFMAG2 THEN "EI_MAG2"
    ELSE IF ehdr.EI_MAG3 # ELFMAG3 THEN "EI_MAG3"
    ELSE IF ehdr.EI_CLASS # ELFCLASS64 THEN "EI_CLASS"
    ELSE IF ehdr.EI_DATA # ELFDATA2LSB THEN "EI_DATA"
    ELSE IF ehdr.e_machine # EM_RISCV THEN "e_machine"
    ELSE ""

Zeros(n) == [i \in 1 .. n |-> 0]

\* buff.resize(p_filesz) when buff.capacity() < p_filesz: the elements kept,
\* zeros appended (the capacity is taken to be the size).
Resize(buff, filesz) ==
    IF Len(buff) < filesz THEN buff \o Zeros(filesz - Len(buff)) ELSE buff

\* pread(fd, buff.data(), p_filesz, p_offset): the bytes the file has at
\* p_offset, at most p_filesz, over the start of the buffer.
Pread(file, buff, filesz, offset) ==
    LET k == IF offset >= Len(file) THEN 0 ELSE Min(filesz, Len(file) - offset)
    IN SubSeq(file, offset + 1, offset + k) \o SubSeq(buff, k + 1, Len(buff))

\* Lines 255-267 of StoreElfFile, from program header i on.  data() of a
\* vector that never grew is null, which StoreByteSequence asserts against.
\* NextSegment is the loop after the StoreByteSequence of header i ended
\* with outcome o: an outcome other than a return ends the call.
RECURSIVE LoadSegments(_, _, _, _, _), NextSegment(_, _, _, _, _)
LoadSegments(vm, img, buff, i, asserts) ==
    IF i > Len(img.phdrs)
    THEN [st |-> "ok", vm |-> vm]
    ELSE LET phdr == img.phdrs[i]
         IN IF phdr.p_type # PT_LOAD
            THEN LoadSegments(vm, img, buff, i + 1, asserts)
            ELSE LET b == Pread(img.file, Resize(buff, phdr.p_filesz),
                                phdr.p_filesz, phdr.p_offset)
                 IN IF asserts /\ Len(b) = 0
                    THEN [st |-> "assert", vm |-> vm]
                    ELSE NextSegment(StoreByteSequence(vm, phdr.p_vaddr, b, phdr.p_filesz),
                                     img, b, i, asserts)

NextSegment(o, img, buff, i, asserts) ==
    IF o.st # "ok"
    THEN [st |-> o.st, vm |-> o.vm]
    ELSE LoadSegments(o.vm, img, buff, i + 1, asserts)

\* Lines 269-272 of StoreElfFile: what the call returns after the loop
\* ended with outcome r.
ReturnEntry(r, img) ==
    [st |-> r.st, vm |-> r.vm,
     ret |-> IF r.st = "ok" THEN img.ehdr.e_entry ELSE 0,
     err |-> ""]

\* VirtualMem::StoreElfFile
StoreElfFile(vm, img, asserts) ==
    IF validateElfHeader(img.ehdr) # ""
    THEN [st |-> "throw", vm |-> vm, ret |-> 0, err |-> validateElfHeader(img.ehdr)]
    ELSE ReturnEntry(LoadSegments(vm, img, <<>>, 1, asserts), img)

(***************************************************************************)
(* The images the driver loads.                                            *)
(***************************************************************************)
File == <<1, 2, 3, 3, 1, 2>>

GoodHeader ==
    [EI_MAG0 |-> ELFMAG0, EI_MAG1 |-> ELFMAG1, EI_MAG2 |-> ELFMAG2,
     EI_MAG3 |-> ELFMAG3, EI_CLASS |-> ELFCLASS64, EI_DATA |-> ELFDATA2LSB,
     e_machine |-> EM_RISCV, e_entry |-> PAGE_SIZE + 1]

Headers ==
    {GoodHeader,
     [GoodHeader EXCEPT !.e_entry = 0],
     [GoodHeader EXCEPT !.EI_MAG0 = ELFMAG0 + 1],
     [GoodHeader EXCEPT !.EI_MAG1 = ELFMAG1 + 1],
     [GoodHeader EXCEPT !.EI_MAG2 = ELFMAG2 + 1],
     [GoodHeader EXCEPT !.EI_MAG3 = ELFMAG3 + 1],
     [GoodHeader EXCEPT !.EI_CLASS = ELFCLASS64 - 1],
     [GoodHeader EXCEPT !.EI_DATA = ELFDATA2LSB + 1],
     [GoodHeader EXCEPT !.e_machine = EM_RISCV - 1],
     [GoodHeader EXCEPT !.EI_CLASS = ELFCLASS64 - 1, !.e_machine = EM_RISCV - 1]}

Phdr(type, offset, filesz, memsz, vaddr) ==
    [p_type |-> type, p_offset |-> offset, p_filesz |-> filesz,
     p_memsz |-> memsz, p_vaddr |-> vaddr]

\* A segment in page 0; one in page 1; one across the boundary of pages 0
\* and 1; one with p_filesz > p_memsz that overlaps the first; one with no
\* file bytes; one that is not PT_LOAD.
Segments ==
    {Phdr(PT_LOAD, 0, 2, 2, 1),
     Phdr(PT_LOAD, 1, 3, 4, PAGE_SIZE + 1),
     Phdr(PT_LOAD, 0, 2, 2, PAGE_SIZE - 1),
     Phdr(PT_LOAD, 2, 2, 1, 2),
     Phdr(PT_LOAD, 0, 0, 4, 4),
     Phdr(PT_LOAD + 3, 0, 2, 2, 4)}

Tables == UNION {[1 .. k -> Segments] : k \in 0 .. MaxPhdrs}

Images == [ehdr : Headers, phdrs : Tables, file : {File}]

\* What was in memory before the image is loaded.
ElfPrior ==
    /\ status = "running"
    /\ phase.pos = "boot"
    /\ \E a \in Addr, n \in 1 .. 2 :
          /\ a + n <= Top
          /\ Commit(StoreByteSequence(VM, a, Chrs(0, n), n),
                    [NoOp EXCEPT !.op = "StoreByteSequence", !.addr = a,
                                 !.chrs = Chrs(0, n), !.len = n])
    /\ phase' = [phase EXCEPT !.pos = "ready"]
    /\ UNCHANGED hart

\* The memory and the call record after a StoreElfFile that ended as r.
CommitElf(r, img) ==
    /\ store' = r.vm.store
    /\ pages' = r.vm.pages
    /\ fp' = r.vm.fp
    /\ status' = StatusAfter(r.st)
    /\ last' = [NoOp EXCEPT !.op = "StoreElfFile", !.img = img,
                            !.st = r.st, !.ret = r.ret, !.err = r.err]

DoStoreElfFile ==
    /\ status = "running"
    /\ phase.pos \in {"boot", "ready"}
    /\ \E img \in Images, asserts \in BOOLEAN :
          CommitElf(StoreElfFile(VM, img, asserts), img)
    /\ nops' = nops + 1
    /\ phase' = [phase EXCEPT !.pos = "loaded"]
    /\ UNCHANGED hart

InitElf == MemInit /\ phase = Driver("boot") /\ hart = HartInit

NextElf ==
    \/ ElfPrior
    \/ DoStoreElfFile

SpecElf == InitElf /\ [][NextElf]_vars

(***************************************************************************)
(* Claims.                                                                 *)
(***************************************************************************)
VMNext == [store |-> store', pages |-> pages', fp |-> fp']

FastStoreOps == {"StoreTwoBytesFast", "StoreFourBytesFast", "StoreEightBytesFast"}

\* C1: right after a StoreByte(a, v) that returned, in whatever memory the
\* earlier stores left, LoadByte(a) does not fault and returns v.  (A
\* StoreByte that cannot commit the page ends the process: no load follows.)
C1_StoreLoadRoundTrip ==
    (last.op = "StoreByte" /\ last.st = "ok")
        => LoadByte(VM, last.addr) = [st |-> "ok", val |-> last.val]

\* C1 witness: a StoreByte, made after an earlier store that committed
\* another page, has committed its own page and its byte is read back.
C1_Witness ==
    /\ last.op = "StoreByte"
    /\ last.st = "ok"
    /\ nops = 2
    /\ Cardinality(pages) = 2
    /\ LoadByte(VM, last.addr).val = last.val

\* C2 (as claimed): StoreByteSequence(a, s, n) returns and LoadByteSequence(a, n)
\* then returns exactly s, for every a and s within the capacity.
C2_SequenceRoundTrip ==
    (last.op = "StoreByteSequence" /\ last.st # "abort")
        => /\ last.st = "ok"
           /\ LoadByteSequence(VM, last.addr, last.len) = [st |-> "ok", val |-> last.chrs]

\* N single StoreByte calls writing the bytes of value in little-endian
\* order at addr .. addr+n-1.
RECURSIVE ByteWise(_, _, _, _, _)
ByteWise(vm, addr, n, value, i) ==
    IF i >= n
    THEN Outcome("ok", vm, 0, <<>>)
    ELSE LET s == StoreByte(vm, addr + i, ByteOf(value, i))
         IN Then2(s, ByteWise(s.vm, addr, n, value, i + 1))

\* The little-endian value of the n bytes LoadByte returns at addr .. addr+n-1.
RECURSIVE ByteWiseLoad(_, _, _)
ByteWiseLoad(vm, addr, n) ==
    IF n = 0
    THEN [st |-> "ok", val |-> 0]
    ELSE LET h == ByteWiseLoad(vm, addr, n - 1)
             b == LoadByte(vm, addr + n - 1)
         IN IF h.st # "ok" \/ b.st # "ok"
            THEN [st |-> "fault", val |-> 0]
            ELSE [st |-> "ok", val |-> h.val + b.val * Pow2((n - 1) * BYTE_BITS)]

LoadFast(vm, addr, n) ==
    CASE n = 2 -> LoadTwoBytesFast(vm, addr)
      [] n = 4 -> LoadFourBytesFast(vm, addr)
      [] n = 8 -> LoadEightBytesFast(vm, addr)

\* Load<N>BytesFast agrees with N LoadByte calls, at every address.
LoadsAgree(vm) ==
    \A n \in {2, 4, 8} : \A a \in Addr :
        a + n <= Top =>
            LET f == LoadFast(vm, a, n)
                b == ByteWiseLoad(vm, a, n)
            IN /\ (f.st = "ok") <=> (b.st = "ok")
               /\ f.st = "ok" => f.val = b.val

\* C3: a Store<N>BytesFast(a, x) returns exactly when the N single StoreByte
\* calls would, and then leaves the memory they would leave; in the memory
\* it leaves, every Load<N>BytesFast returns the little-endian value of the
\* bytes LoadByte returns, and Load<N>BytesFast(a) returns x.
C3_FastEqualsByteWise ==
    [][ last'.op \in FastStoreOps =>
          LET b == ByteWise(VM, last'.addr, last'.len, last'.val, 0)
          IN /\ (last'.st = "ok") <=> (b.st = "ok")
             /\ last'.st = "ok" =>
                   /\ VMNext = b.vm
                   /\ LoadsAgree(VMNext)
                   /\ LoadFast(VMNext, last'.addr, last'.len)
                        = [st |-> "ok", val |-> last'.val] ]_vars

\* C3 witness: an 8-byte store at an odd offset that crosses a page boundary
\* has returned and the 8-byte load at its address returns the value.
C3_Witness ==
    /\ last.op = "StoreEightBytesFast"
    /\ last.st = "ok"
    /\ GetPageOffsetByAddress(last.addr) % 2 = 1
    /\ ~AtOnePage(GetPageOffsetByAddress(last.addr), 8)
    /\ LoadEightBytesFast(VM, last.addr) = [st |-> "ok", val |-> last.val]

\* C4 (as claimed): after any sequence of StoreByteSequence calls, in every
\* committed page the occupied prefix [0, free pointer) holds every offset
\* written (the driver writes no zero byte and a fresh page is zeroed), and
\* no free pointer exceeds PAGE_SIZE.
C4_OccupancyCoversWrites ==
    status = "running" =>
        \A p \in pages :
            /\ fp[p] <= PAGE_SIZE
            /\ \A o \in Offsets : store[p][o] # 0 => o < fp[p]

C5_NoFetchAtZero ==
    \A i \in 1 .. Len(hart.fetched) : hart.fetched[i] # 0

\* C6: in a Mode::SIMPLE run the counter is the number of instructions
\* executed; no instruction but the last executed left the program counter
\* at 0; the run is over exactly when the last executed instruction left it
\* at 0, and then the program counter is 0 and the count reported (when
\* measuring) is the number of instructions executed.
C6_SimpleRunStopsAtZero ==
    (hart.call = "RunImpl" /\ hart.mode = "SIMPLE") =>
        LET n == Len(hart.after)
        IN /\ hart.counter = hart.nexec
           /\ hart.nexec = n
           /\ hart.ndecode = n
           /\ Len(hart.fetched) = n
           /\ \A i \in 1 .. n : i < n => hart.after[i] # 0
           /\ hart.done <=> (n > 0 /\ hart.after[n] = 0)
           /\ hart.done <=> hart.pos = "idle"
           /\ hart.done => /\ hart.pc = 0
                           /\ hart.measure => hart.out = n

\* C6 witness: a measured Mode::SIMPLE run is over after 5 instructions, the
\* fifth of which set the program counter to 0, and reported 5.
C6_Witness ==
    /\ hart.call = "RunImpl"
    /\ hart.mode = "SIMPLE"
    /\ hart.done
    /\ hart.measure
    /\ hart.nexec = 5
    /\ hart.out = 5
    /\ hart.pc = 0

\* The header fields that do not have the value StoreElfFile supports.
Mismatched(ehdr) ==
    {f \in {"EI_MAG0", "EI_MAG1", "EI_MAG2", "EI_MAG3", "EI_CLASS", "EI_DATA", "e_machine"} :
        ehdr[f] # GoodHeader[f]}

\* The byte at an address, 0 in a page that is not committed.
Peek(vm, a) == vm.store[GetPageIdByAddress(a)][GetPageOffsetByAddress(a)]

\* The program headers of type LOAD whose file bytes cover address a.
Covering(img, a) ==
    {i \in 1 .. Len(img.phdrs) :
        /\ img.phdrs[i].p_type = PT_LOAD
        /\ img.phdrs[i].p_vaddr <= a
        /\ a < img.phdrs[i].p_vaddr + img.phdrs[i].p_filesz}

\* The byte at address a after the image is loaded into vm: the file byte
\* of the last LOAD header that covers a, the byte vm had when none does.
LoadedByte(vm, img, a) ==
    LET c == Covering(img, a)
    IN IF c = {}
       THEN Peek(vm, a)
       ELSE LET i == CHOOSE k \in c : \A m \in c : m <= k
            IN img.file[img.phdrs[i].p_offset + (a - img.phdrs[i].p_vaddr) + 1]

C8_LoadSegmentsCopied ==
    [][ (/\ last'.op = "StoreElfFile"
         /\ Mismatched(last'.img.ehdr) = {}
         /\ last'.st # "abort") =>
          /\ last'.st = "ok"
          /\ last'.ret = last'.img.ehdr.e_entry
          /\ \A a \in Addr : Peek(VMNext, a) = LoadedByte(VM, last'.img, a) ]_vars

\* C9 (as claimed): a program header with p_filesz > p_memsz is skipped: an
\* image all of whose LOAD headers are such leaves the memory as it was.
C9_OversizedSegmentSkipped ==
    [][ (/\ last'.op = "StoreElfFile"
         /\ Mismatched(last'.img.ehdr) = {}
         /\ \A i \in 1 .. Len(last'.img.phdrs) :
               last'.img.phdrs[i].p_type = PT_LOAD =>
                   last'.img.phdrs[i].p_filesz > last'.img.phdrs[i].p_memsz) =>
          VMNext = VM ]_vars

\* One fetch at program counter pc, one decode and one execute were made.
OneCycleAt(h, pc) ==
    /\ h.fetched = <<pc>>
    /\ h.ndecode = 1
    /\ h.nexec = 1

NoCycle(h) ==
    /\ h.fetched = <<>>
    /\ h.ndecode = 0
    /\ h.nexec = 0

\* C12 (as claimed): every call of RunInstr makes one fetch, one decode and
\* one execute, whatever the program counter at entry.
C12_RunInstrAlwaysCycles ==
    hart.call = "RunInstr" =>
        /\ Len(hart.fetched) = 1
        /\ hart.ndecode = 1
        /\ hart.nexec = 1

\* C12 (amended): a call of RunInstr makes exactly one fetch, one decode and
\* one execute when the program counter is not 0 at entry, and none of them
\* when it is 0, whatever mode the hart last ran in and whatever the
\* instruction does.
C12_RunInstrCyclesUnlessHalted ==
    [][ hart'.call = "RunInstr" =>
          IF hart.pc # 0
          THEN /\ Len(hart'.fetched) = 1
               /\ hart'.ndecode = 1
               /\ hart'.nexec = 1
               /\ Len(hart'.after) = 1
          ELSE NoCycle(hart') /\ hart'.after = <<>> ]_vars

\* C12 witness: a RunInstr made at a program counter other than 0 has made
\* its one cycle and the instruction left the program counter elsewhere.
C12_Witness ==
    /\ hart.call = "RunInstr"
    /\ hart.fetched = <<1>>
    /\ hart.ndecode = 1
    /\ hart.nexec = 1
    /\ hart.pc = 2

\* C13: RunImpl in Mode::NONE, in Mode::BB or with an unknown mode makes no
\* fetch, decode or execute, leaves the program counter, the registers and
\* the memory as they were, keeps its counter at 0 and returns.
C13_DisabledModesDoNothing ==
    [][ (hart'.call = "RunImpl" /\ hart'.mode # "SIMPLE") =>
          /\ NoCycle(hart')
          /\ hart'.counter = 0
          /\ hart'.pc = hart.pc
          /\ hart'.regs = hart.regs
          /\ VMNext = VM
          /\ hart'.done
          /\ hart'.pos = "idle"
          /\ hart'.measure => hart'.out = 0 ]_vars

\* C13 witness: a measured Mode::BB run entered at a program counter other
\* than 0 is over with nothing executed and 0 reported.
C13_Witness ==
    /\ hart.call = "RunImpl"
    /\ hart.mode = "BB"
    /\ hart.done
    /\ hart.measure
    /\ hart.out = 0
    /\ hart.pc # 0
    /\ NoCycle(hart)

\* C20: RunInstr returns 1 exactly when the program counter is 0 at entry,
\* and then makes no fetch, decode or execute and leaves the program
\* counter, the registers and the memory as they were; otherwise it makes
\* one fetch at the program counter it was entered with, one decode and one
\* execute and returns 0, also when the instruction left the program
\* counter at 0.
C20_RunInstrStatus ==
    [][ hart'.call = "RunInstr" =>
          /\ hart'.ret \in {0, 1}
          /\ (hart'.ret = 1) <=> (hart.pc = 0)
          /\ hart.pc = 0 =>
                /\ NoCycle(hart')
                /\ hart'.pc = 0
                /\ hart'.regs = hart.regs
                /\ VMNext = VM
          /\ hart.pc # 0 =>
                /\ OneCycleAt(hart', hart.pc)
                /\ hart'.after = <<hart'.pc>> ]_vars

\* C20 witness: a RunInstr has stepped (returned 0) through an instruction
\* that left the program counter at 0.
C20_Witness ==
    /\ hart.call = "RunInstr"
    /\ hart.ret = 0
    /\ hart.pc = 0
    /\ hart.nexec = 1
    /\ hart.after = <<0>>

FastLoadOps == {"LoadTwoBytesFast", "LoadFourBytesFast", "LoadEightBytesFast"}

LoadOps == {"LoadByte", "LoadByteSequence"} \cup FastLoadOps

\* C11: a LoadByte at an address whose page is not committed reports the
\* fault, releases the backing store and ends the process, without a value
\* and without committing the page; a StoreByte at such an address, the
\* capacity admitting one more page, commits the page, writes the byte and
\* returns.
C11_LoadFaultsStoreCommits ==
    [][ /\ (last'.op = "LoadByte" /\ GetPageIdByAddress(last'.addr) \notin pages) =>
              /\ last'.st = "abort"
              /\ last'.err # ""
              /\ status' = "aborted"
              /\ VMNext = EmptyVM
        /\ (last'.op = "LoadByte" /\ GetPageIdByAddress(last'.addr) \in pages) =>
              /\ last'.st = "ok"
              /\ last'.ret = Peek(VM, last'.addr)
        /\ (/\ last'.op = "StoreByte"
            /\ GetPageIdByAddress(last'.addr) \notin pages
            /\ Cardinality(pages) < CAPACITY_PAGES) =>
              /\ last'.st = "ok"
              /\ status' = "running"
              /\ pages' = pages \cup {GetPageIdByAddress(last'.addr)}
              /\ Peek(VMNext, last'.addr) = last'.val ]_vars

\* C11 witness: with another page committed, a LoadByte at an address of a
\* page that was not has ended the process.
C11_Witness ==
    /\ last.op = "LoadByte"
    /\ last.st = "abort"
    /\ status = "aborted"
    /\ nops = 2
    /\ pages = {}

C15_FastPathOnly ==
    (/\ last.op \in FastStoreOps
     /\ last.st = "ok"
     /\ AtOnePage(GetPageOffsetByAddress(last.addr), last.len)) =>
        /\ last.ww = <<last.len>>
        /\ last.sb = 0

\* C16 (as claimed): a page fault in a Load<N>BytesFast or a
\* Store<N>BytesFast never leaves the function as an exception: the call
\* returns or the process is ended.
C16_FastFaultIsFatal ==
    last.op \in FastLoadOps \cup FastStoreOps => last.st \in {"ok", "abort"}

\* C19: a StoreByte, a Store<N>BytesFast or a load that does not end the
\* process leaves every free pointer as it was, 0 for a page it committed;
\* a load leaves the bytes and the committed pages as they were; a
\* StoreByte(a, v) leaves the byte at every address other than a.
C19_OnlySequenceMovesOccupancy ==
    [][ (/\ last'.op \in {"StoreByte"} \cup FastStoreOps \cup LoadOps
         /\ last'.st \in {"ok", "throw"}) =>
          /\ \A p \in PageIds : fp'[p] = IF p \in pages THEN fp[p] ELSE 0
          /\ last'.op \in LoadOps => VMNext = VM
          /\ last'.op = "StoreByte" =>
                \A a \in Addr : a # last'.addr => Peek(VMNext, a) = Peek(VM, a) ]_vars

\* C19 witness: an 8-byte store across two pages, one with its free pointer
\* moved by an earlier StoreByteSequence and one it committed, has returned
\* with those free pointers as they were.
C19_Witness ==
    /\ last.op = "StoreEightBytesFast"
    /\ last.st = "ok"
    /\ Cardinality(pages) = 2
    /\ \E p \in pages : fp[p] > 0 /\ store[p][0] # 0
    /\ \E p \in pages : fp[p] = 0 /\ store[p] # ZeroPage

\* C17 (as claimed): the occupancy update of every StoreByteSequence ends,
\* and it asks for no page that the byte stores did not commit.
C17_OccupancyUpdateTerminates ==
    last.op = "StoreByteSequence" => last.st \notin {"hang", "throw"}

\* The offsets of page p that a store of n bytes at address a writes.
Written(p, a, n) ==
    {GetPageOffsetByAddress(a + i) : i \in {j \in 0 .. n - 1 : GetPageIdByAddress(a + j) = p}}

Max(a, b) == IF a >= b THEN a ELSE b

\* C18 (as claimed): after a StoreByteSequence(a, s, n), n >= 1, that
\* returned, the free pointer of every page the range touches is the larger
\* of what it was and 1 + the highest offset written in the page, and every
\* other free pointer is what it was.
C18_FreePointerIsMaximum ==
    [][ (/\ last'.op = "StoreByteSequence"
         /\ last'.len >= 1
         /\ last'.st = "ok") =>
          \A p \in PageIds :
              LET w == Written(p, last'.addr, last'.len)
              IN fp'[p] = IF w = {}
                          THEN fp[p]
                          ELSE Max(fp[p], 1 + CHOOSE o \in w : \A q \in w : q <= o) ]_vars

=============================================================================
